---- MODULE Spec2Model ----
(***************************************************************************)
(* Reference-counted media storage of ProSleeper/media_backend.             *)
(*                                                                         *)
(* Two reference-counting servers share one schema (file_storage,          *)
(* uploaded_media), one database file (media.db) and one upload root:      *)
(*   "sync"    src/unnamed/part_000, better-sqlite3, every request one     *)
(*             synchronous db.transaction();                               *)
(*   "promise" src/server.js lines 1-688, sqlite3 driven through           *)
(*             util.promisify, every request a chain of awaits on the one  *)
(*             shared connection.                                          *)
(* The state is the database (with its open transaction), the blob files   *)
(* under the upload root, and the position and locals of every request in  *)
(* flight.                                                                 *)
(***************************************************************************)
EXTENDS Integers, Sequences, FiniteSets, TLC

\* ------------------------------------------------------------------ bounds
\* Date.now() returns a value of 1..MaxTime (wall clock: it may repeat).
MaxTime == 2
\* AUTOINCREMENT ids handed out per table.
MaxRows == 2
\* Environment faults (a failing fs call or SQL statement) injected per run.
MaxFaults == 1
\* Requests arriving per run.
MaxRequests == 3
\* Requests the "promise" server has in flight at once.
MaxInFlight == 2

\* ------------------------------------------------------------------ inputs
\* Upload payloads (the Buffer busboy collected).
Contents == {"X", "Y"}
\* The file part as the client sends it: `head` is its first limits.fileSize
\* bytes, `more` tells whether bytes follow them.
Payloads == [head : Contents, more : BOOLEAN]
\* Album field values and file names, as sequences of characters (a run of
\* letters of one case is one element).
Albums == {<<"T">>, <<"H">>}
Names == {<<"a", " ", ".", "MOV">>}
\* Album field values a client may send besides: the parent directory.
DotDot == <<".", ".">>
AlbumFields == Albums \cup {DotDot}
\* Declared content types.
ImagePng == <<"image", "/", "png">>
TextPlain == <<"text", "/", "plain">>
OctetStream == <<"application", "/", "octet-stream">>
ImageHeic == <<"image", "/", "heic">>
VideoMp4 == <<"video", "/", "mp4">>
AudioMp4 == <<"audio", "/", "mp4">>
\* What the file part declares: its content type and its file name.
\* The file parts of well-behaved clients: short images.
Plain == {p \in Payloads : ~p.more}
Usual == {<<ImagePng, n>> : n \in Names}
\* The same with the generic type, which leaves the kind to the file name.
Known == Usual \cup {<<OctetStream, n>> : n \in Names}
\* Content types and file names for the classification alone.
ClassTypes == {ImagePng, ImageHeic, VideoMp4, AudioMp4, OctetStream, TextPlain}
ClassNames ==
    Names \cup {<<"a", ".", "flv">>, <<"a", ".", "JPG">>, <<"a", ".", "txt">>, <<"a">>,
                <<".", "png">>, <<"a", ".", "mp4", ".", "txt">>,
                <<"a", ".", "txt", ".", "heic">>}
Declared ==
    Usual \cup {<<TextPlain, n>> : n \in Names}
    \cup {<<OctetStream, <<"a", ".", "txt">> >>, <<OctetStream, <<"a">> >>}
Times == 1..MaxTime
MediaIds == 1..(MaxRows + 1)

\* ---------------------------------------------------------------- helpers
\* Characters kept by the regular expression /[^a-zA-Z0-9가-힣._-]/g.
SafeChars ==
    {"a", "T", "H", "MOV", "JPG", "txt", "png", "mp4", "heic", "flv", ".", "_", "-"}

sanitizeFolderName(name) ==
    [i \in DOMAIN name |-> IF name[i] \in SafeChars THEN name[i] ELSE "_"]

\* String.prototype.startsWith
StartsWith(s, prefix) ==
    Len(s) >= Len(prefix) /\ SubSeq(s, 1, Len(prefix)) = prefix

\* toLowerCase left out: the extension is compared as it was sent.
toLowerCaseNone(s) == s

\* String.prototype.toLowerCase
toLowerCase(s) ==
    [i \in DOMAIN s |-> IF s[i] = "MOV" THEN "mov"
                        ELSE IF s[i] = "JPG" THEN "jpg" ELSE s[i]]

\* path.extname: from the last "." to the end; nothing when there is no "."
\* or the only one opens the name.
extname(filename) ==
    LET dots == {i \in DOMAIN filename : filename[i] = "."} \ {1}
    IN IF dots = {}
       THEN << >>
       ELSE SubSeq(filename, CHOOSE i \in dots : \A j \in dots : j <= i,
                   Len(filename))

imageExts ==
    {<<".", e>> : e \in {"jpg", "jpeg", "png", "gif", "bmp", "webp", "heic", "heif"}}

videoExts ==
    {<<".", e>> : e \in {"mp4", "mov", "avi", "mkv", "webm", "flv", "wmv", "m4v"}}

\* getFileType with every upload classed as an image.
getFileTypeImage(mimeType, filename) == "image"

getFileType(mimeType, filename) ==
    IF StartsWith(mimeType, <<"image", "/">>) THEN "image"
    ELSE IF StartsWith(mimeType, <<"video", "/">>) THEN "video"
    ELSE IF mimeType = OctetStream /\ filename # << >>
    THEN LET ext == toLowerCase(extname(filename))
         IN IF ext \in imageExts THEN "image"
            ELSE IF ext \in videoExts THEN "video"
            ELSE "unknown"
    ELSE "unknown"

\* The table of guessMimeType.
mimeTypes ==
    <<".", "jpg">> :> <<"image", "/", "jpeg">> @@
    <<".", "jpeg">> :> <<"image", "/", "jpeg">> @@
    <<".", "png">> :> <<"image", "/", "png">> @@
    <<".", "gif">> :> <<"image", "/", "gif">> @@
    <<".", "bmp">> :> <<"image", "/", "bmp">> @@
    <<".", "webp">> :> <<"image", "/", "webp">> @@
    <<".", "heic">> :> <<"image", "/", "heic">> @@
    <<".", "heif">> :> <<"image", "/", "heif">> @@
    <<".", "mp4">> :> <<"video", "/", "mp4">> @@
    <<".", "mov">> :> <<"video", "/", "quicktime">> @@
    <<".", "avi">> :> <<"video", "/", "x-msvideo">> @@
    <<".", "mkv">> :> <<"video", "/", "x-matroska">> @@
    <<".", "webm">> :> <<"video", "/", "webm">>

\* guessMimeType: mimeTypes[ext] || "application/octet-stream"
guessMimeType(filename) ==
    LET ext == toLowerCase(extname(filename))
    IN IF ext \in DOMAIN mimeTypes THEN mimeTypes[ext] ELSE OctetStream

\* actualMimeType of bb.on("file"): the declared type, or the guess from the
\* file name when the declared type is application/octet-stream.
actualMimeType(mimeType, filename) ==
    IF mimeType = OctetStream THEN guessMimeType(filename) ELSE mimeType

\* The Buffer the file handler collects: busboy ends the file stream at
\* limits.fileSize, and the handler listens to "data", "error" and "end" only.
Collected(payload) == payload.head

\* crypto md5 digest of the buffer: distinct on the payloads of Contents.
calculateHash(buffer) == <<"md5", buffer>>

\* `${timestamp}_${safeName}`
SavedName(ts, name) == <<ToString(ts), "_">> \o sanitizeFolderName(name)

\* path.join of the segments, as a path relative to where it starts: "."
\* segments go, a ".." segment takes the segment before it away, or stays in
\* front when there is none to take.
RECURSIVE join(_)
join(segments) ==
    IF segments = << >>
    THEN << >>
    ELSE LET front == join(SubSeq(segments, 1, Len(segments) - 1))
             last == segments[Len(segments)]
         IN IF last = <<".">>
            THEN front
            ELSE IF last = DotDot /\ front # << >> /\ front[Len(front)] # DotDot
            THEN SubSeq(front, 1, Len(front) - 1)
            ELSE Append(front, last)

\* path.join(uploadDir, safeAlbumName, savedName), relative to uploadDir
FilePath(album, ts, name) == join(<<sanitizeFolderName(album), SavedName(ts, name)>>)

\* path.join(safeAlbumName, storage.saved_name)
AlbumPath(album, savedName) == join(<<sanitizeFolderName(album), savedName>>)

VARIABLES
    variant,    \* which server runs: "sync" or "promise"
    db,         \* media.db: file_storage, uploaded_media, sqlite_sequence
    files,      \* blobs under the upload root: path -> payload
    dirs,       \* album folders under the upload root
    faults,     \* environment faults injected so far
    resp,       \* the response sent by the last finished request
    txn,        \* the shared connection's open transaction, if any
    req,        \* "promise" variant: the requests in flight, by slot
    served      \* requests that have arrived so far

vars == <<variant, db, files, dirs, faults, resp, txn, req, served>>

\* ------------------------------------------------------------ the database
EmptyDb ==
    [file_storage |-> {}, uploaded_media |-> {},
     sqlite_sequence |-> [file_storage |-> 0, uploaded_media |-> 0]]

\* SELECT * FROM file_storage WHERE file_hash = ?
SelectStorageByHash(d, h) == {s \in d.file_storage : s.file_hash = h}

\* SELECT * FROM file_storage WHERE id = ?
SelectStorageById(d, id) == {s \in d.file_storage : s.id = id}

\* The SELECT without its WHERE clause: any entry answers it.
SelectMediaAny(d, id) == d.uploaded_media

\* SELECT * FROM uploaded_media WHERE id = ?
SelectMediaById(d, id) == {m \in d.uploaded_media : m.id = id}

\* file_storage declared without the UNIQUE index on file_hash.
NoUniqueIndex(d, h) == FALSE

\* file_hash TEXT UNIQUE NOT NULL: the INSERT is refused when the hash is taken.
UniqueHashConflict(d, h) == SelectStorageByHash(d, h) # {}

\* INSERT INTO file_storage (...) VALUES (?, ?, ?, ?, ?, ?, 1), AUTOINCREMENT id.
InsertStorage(d, h, savedName, filePath, mimeType, fileType) ==
    LET id == d.sqlite_sequence.file_storage + 1
        row == [id |-> id, file_hash |-> h, saved_name |-> savedName,
                file_path |-> filePath, mime_type |-> mimeType,
                file_type |-> fileType, ref_count |-> 1]
    IN [d EXCEPT !.file_storage = @ \cup {row},
                 !.sqlite_sequence.file_storage = id]

\* The reuse branch with its UPDATE left out: the count is never raised.
IncrementRefLost(d, id) == d

\* UPDATE file_storage SET ref_count = ref_count + 1 WHERE id = ?
IncrementRef(d, id) ==
    [d EXCEPT !.file_storage =
        {IF s.id = id THEN [s EXCEPT !.ref_count = @ + 1] ELSE s : s \in @}]

\* The decrement applied twice: the UPDATE stores one less than newRefCount.
SetRefBelow(d, id, n) ==
    [d EXCEPT !.file_storage =
        {IF s.id = id THEN [s EXCEPT !.ref_count = n - 1] ELSE s : s \in @}]

\* UPDATE file_storage SET ref_count = ? WHERE id = ?
SetRef(d, id, n) ==
    [d EXCEPT !.file_storage =
        {IF s.id = id THEN [s EXCEPT !.ref_count = n] ELSE s : s \in @}]

\* The INSERT into a table declared without AUTOINCREMENT: the id is one more
\* than the largest id in the table.
InsertMediaRowid(d, storageId, name, album, albumPath) ==
    LET ids == {m.id : m \in d.uploaded_media} \cup {0}
        id == (CHOOSE i \in ids : \A j \in ids : j <= i) + 1
        row == [id |-> id, storage_id |-> storageId, original_name |-> name,
                album_name |-> album, album_path |-> albumPath]
    IN [d EXCEPT !.uploaded_media = @ \cup {row},
                 !.sqlite_sequence.uploaded_media = id]

\* INSERT INTO uploaded_media (storage_id, original_name, album_name, album_path)
InsertMedia(d, storageId, name, album, albumPath) ==
    LET id == d.sqlite_sequence.uploaded_media + 1
        row == [id |-> id, storage_id |-> storageId, original_name |-> name,
                album_name |-> album, album_path |-> albumPath]
    IN [d EXCEPT !.uploaded_media = @ \cup {row},
                 !.sqlite_sequence.uploaded_media = id]

\* The DELETE of the entry left out.
DeleteMediaNone(d, id) == d

\* DELETE FROM uploaded_media WHERE id = ?
DeleteMedia(d, id) ==
    [d EXCEPT !.uploaded_media = {m \in @ : m.id # id}]

\* The DELETE of the storage row left out.
DeleteStorageKept(d, id, foreignKeys) == d

\* DELETE FROM file_storage WHERE id = ?  With foreign keys enforced
\* (better-sqlite3 is built with them on) ON DELETE CASCADE removes the
\* uploaded_media rows of that storage row; sqlite3 leaves them.
DeleteStorage(d, id, foreignKeys) ==
    [d EXCEPT !.file_storage = {s \in @ : s.id # id},
              !.uploaded_media =
                  IF foreignKeys THEN {m \in @ : m.storage_id # id} ELSE @]

\* Two DELETE statements that remove no row.
DeleteAllRowsKept(d) == d

\* DELETE FROM uploaded_media; DELETE FROM file_storage (sqlite_sequence stays).
DeleteAllRows(d) == [d EXCEPT !.file_storage = {}, !.uploaded_media = {}]

\* SELECT COUNT(*) as count FROM uploaded_media
CountMedia(d) == Cardinality(d.uploaded_media)

\* SELECT COUNT(*) as count FROM file_storage
CountStorage(d) == Cardinality(d.file_storage)

\* SELECT COUNT(*) as count FROM file_storage WHERE file_type = ?
CountStorageOfType(d, fileType) ==
    Cardinality({s \in d.file_storage : s.file_type = fileType})

\* ------------------------------------------------------------- file system
\* Every location a blob can be written to, and the mark of a missing file.
Paths == {FilePath(a, t, n) : a \in AlbumFields, t \in Times, n \in Names}
Absent == "-"
NoFiles == [p \in Paths |-> Absent]

\* fs.existsSync(path)
Exists(f, path) == f[path] # Absent

\* The new-file branch with its writeFileSync left out.
WriteFileNone(f, path, data) == f

\* fs.writeFileSync(filePath, fileData): creates or overwrites.
WriteFile(f, path, data) == [f EXCEPT ![path] = data]

\* fs.unlinkSync(path)
Unlink(f, path) == [f EXCEPT ![path] = Absent]

\* ensureAlbumFolder(albumName): the album's folder exists afterwards.
ensureAlbumFolder(ds, albumName) == ds \cup {sanitizeFolderName(albumName)}

\* The blob files on disk.
Blobs(f) == {p \in Paths : Exists(f, p)}

\* ---------------------------------------------------------------- responses
\* The stats object of GET /api/upload/stats (counts only).
StatsOf(mediaCount, storageCount, imageCount, videoCount) ==
    [totalUploads |-> mediaCount, uniqueFiles |-> storageCount,
     duplicateSavings |-> mediaCount - storageCount,
     images |-> imageCount, videos |-> videoCount]

NoStats == StatsOf(0, 0, 0, 0)

NoResp ==
    [op |-> "none", status |-> 0, id |-> 0, storageId |-> 0, refCount |-> 0,
     deletedFile |-> FALSE, error |-> "", wrote |-> {}, more |-> FALSE,
     stats |-> NoStats, part |-> << >>]

\* ------------------------------------------- the connection and its requests
\* BEGIN TRANSACTION keeps what ROLLBACK restores.
NoTxn == [active |-> FALSE, snap |-> EmptyDb]

Slots == 1..MaxInFlight

\* A request's position (the statement it awaits) and its local variables;
\* `seen` keeps the database as the request's own BEGIN found it.
Idle ==
    [op |-> "none", pc |-> "idle", fileData |-> "", name |-> << >>,
     album |-> << >>, mediaId |-> 0, timestamp |-> 0, storage |-> {},
     media |-> {}, wrote |-> {}, error |-> "", seen |-> {}, more |-> FALSE,
     mimeType |-> << >>, fileType |-> "", counts |-> << >>]

Init ==
    /\ variant \in {"sync", "promise"}
    /\ db = EmptyDb
    /\ files = NoFiles
    /\ dirs = {}
    /\ faults = 0
    /\ resp = NoResp
    /\ txn = NoTxn
    /\ req = [r \in Slots |-> Idle]
    /\ served = 0

\* No request is in flight.
Quiet == \A r \in Slots : req[r].pc = "idle"

\* A request arrives.
Arrive == served < MaxRequests /\ served' = served + 1

\* ------------------------------------------- "sync" variant: POST upload
\* What a db.transaction() body hands back: ok = FALSE when it threw (the
\* wrapper rolls the database back; the file system keeps what was done).
Thrown(f, wrote, error) ==
    [ok |-> FALSE, db |-> EmptyDb, files |-> f, wrote |-> wrote, error |-> error,
     id |-> 0, storageId |-> 0, refCount |-> 0, deletedFile |-> FALSE]

Returned(d, f, wrote, id, storageId, refCount, deletedFile) ==
    [ok |-> TRUE, db |-> d, files |-> f, wrote |-> wrote, error |-> "",
     id |-> id, storageId |-> storageId, refCount |-> refCount,
     deletedFile |-> deletedFile]

\* The same, keeping the rows as the statements before the throw left them.
ThrownAt(d, f, wrote, error) == [Thrown(f, wrote, error) EXCEPT !.db = d]

\* Step 2 of the upload transaction: the uploaded_media row.
UploadInsertMedia(d, f, wrote, storage, name, album, fault) ==
    IF fault = "insertMedia"
    THEN ThrownAt(d, f, wrote, "db")
    ELSE LET d2 == InsertMedia(d, storage.id, name, album,
                               AlbumPath(album, storage.saved_name))
         IN Returned(d2, f, wrote, d2.sqlite_sequence.uploaded_media,
                     storage.id, storage.ref_count, FALSE)

\* The body of the upload transaction.
UploadTransaction(d, f, fileData, mimeType, fileType, name, album, timestamp, fault) ==
    LET fileHash == calculateHash(fileData)
        found == SelectStorageByHash(d, fileHash)
    IN IF found # {}
       THEN LET st == CHOOSE s \in found : TRUE
            IN IF fault = "update"
               THEN Thrown(f, {}, "db")
               ELSE UploadInsertMedia(IncrementRef(d, st.id), f, {},
                        [st EXCEPT !.ref_count = @ + 1], name, album, fault)
       ELSE LET savedName == SavedName(timestamp, name)
                filePath == FilePath(album, timestamp, name)
                f1 == WriteFile(f, filePath, fileData)
                d1 == InsertStorage(d, fileHash, savedName, filePath, mimeType,
                                    fileType)
                st == [id |-> d1.sqlite_sequence.file_storage,
                       file_hash |-> fileHash, saved_name |-> savedName,
                       file_path |-> filePath, mime_type |-> mimeType,
                       file_type |-> fileType, ref_count |-> 1]
            IN IF fault = "write"
               THEN Thrown(f, {}, "fs")
               ELSE IF fault = "insertStorage"
               THEN Thrown(f1, {filePath}, "db")
               ELSE UploadInsertMedia(d1, f1, {filePath}, st, name, album, fault)

UploadFaults == {"none", "write", "insertStorage", "update", "insertMedia"}

\* The album folders after the body of the upload transaction ran: the folder
\* is made in the new-file branch before the write and again in step 2, which
\* the reuse branch reaches unless its UPDATE threw.
UploadFolders(d, ds, fileData, album, fault) ==
    IF SelectStorageByHash(d, calculateHash(fileData)) # {} /\ fault = "update"
    THEN ds
    ELSE ensureAlbumFolder(ds, album)

\* The response of a request whose transaction handed back `out`.
Response(op, out, failStatus) ==
    [NoResp EXCEPT
        !.op = op, !.status = IF out.ok THEN 200 ELSE failStatus, !.id = out.id,
        !.storageId = out.storageId, !.refCount = out.refCount,
        !.deletedFile = out.deletedFile, !.error = out.error, !.wrote = out.wrote]

\* A transaction function that lets the throw pass without rolling back.
NotRolledBack(d, out) == out.db

\* db.transaction(fn)(): commits what fn did when it returns, rolls back to
\* the database as it was when fn throws.
RolledBack(d, out) == IF out.ok THEN out.db ELSE d

\* Commit or roll back, and answer.
Finish(op, out, failStatus) ==
    /\ db' = RolledBack(db, out)
    /\ files' = out.files
    /\ faults' = IF out.ok THEN faults ELSE faults + 1
    /\ UNCHANGED <<txn, req>>

UploadSync(payload, mimeType, name, album, timestamp, fault) ==
    /\ variant = "sync"
    /\ Arrive
    /\ getFileType(mimeType, name) # "unknown"
    /\ db.sqlite_sequence.uploaded_media < MaxRows
    /\ db.sqlite_sequence.file_storage < MaxRows
    /\ fault = "none" \/ faults < MaxFaults
    /\ LET fileData == Collected(payload)
           out == UploadTransaction(db, files, fileData,
                                    actualMimeType(mimeType, name),
                                    getFileType(mimeType, name),
                                    name, album, timestamp, fault)
       IN /\ out.ok <=> fault = "none"
          /\ Finish("upload", out, 500)
          /\ resp' = [Response("upload", out, 500) EXCEPT !.more = payload.more]
          /\ dirs' = UploadFolders(db, dirs, fileData, album, fault)
    /\ UNCHANGED variant

\* bb.on("file") met a file part getFileType does not know: hasError is set
\* and the stream drained; bb.on("finish") answers 400.
UploadUnsupported(mimeType, name) ==
    /\ Arrive
    /\ getFileType(mimeType, name) = "unknown"
    /\ resp' = [NoResp EXCEPT !.op = "upload", !.status = 400,
                              !.error = "unsupported"]
    /\ UNCHANGED <<variant, db, files, dirs, faults, txn, req>>

\* bb.on("finish") of a body without a file part: !fileData answers 400.
UploadNoFile ==
    /\ Arrive
    /\ resp' = [NoResp EXCEPT !.op = "upload", !.status = 400, !.error = "nofile"]
    /\ UNCHANGED <<variant, db, files, dirs, faults, txn, req>>

\* bb.on("file"): the file part's header is read, getFileType classifies it
\* and, unless it is unknown, fileInfo.mimeType is settled.
FilePart(mimeType, name) ==
    /\ variant = "sync"
    /\ resp' = [NoResp EXCEPT
                   !.op = "file",
                   !.part = <<mimeType, name, getFileType(mimeType, name),
                              IF getFileType(mimeType, name) = "unknown"
                              THEN << >> ELSE actualMimeType(mimeType, name)>>]
    /\ UNCHANGED <<variant, db, files, dirs, faults, txn, req, served>>

\* bb.on("finish") of the body whose file part was just read.  The file system
\* above has room for the file names of Names: a part with another name is
\* followed up to its rejection only.  The album field is "T".
FinishPart ==
    /\ resp.op = "file"
    /\ \/ UploadUnsupported(resp.part[1], resp.part[2])
       \/ /\ resp.part[2] \in Names
          /\ \E p \in Plain, t \in Times :
                UploadSync(p, resp.part[1], resp.part[2], <<"T">>, t, "none")

UploadRejected ==
    \/ \E in \in Declared : UploadUnsupported(in[1], in[2])
    \/ UploadNoFile

\* ------------------------------------- "sync" variant: DELETE /media/:id
\* unlinkSync called on whatever file_path names: a missing file throws ENOENT.
UnlinkThrowsMissing(f, path, fault) == ~Exists(f, path) \/ fault = "unlink"

\* if (fs.existsSync(path)) fs.unlinkSync(path): throws only when the file is
\* there and the unlink fails.
UnlinkThrows(f, path, fault) == Exists(f, path) /\ fault = "unlink"

DeleteTransaction(d, f, mediaId, fault) ==
    LET found == SelectMediaById(d, mediaId)
    IN IF found = {}
       THEN Thrown(f, {}, "notfound")
       ELSE
       LET media == CHOOSE m \in found : TRUE
           sfound == SelectStorageById(d, media.storage_id)
           d1 == DeleteMedia(d, mediaId)
       IN IF sfound = {}
          THEN Thrown(f, {}, "TypeError")
          ELSE
          LET storage == CHOOSE s \in sfound : TRUE
              newRefCount == storage.ref_count - 1
          IN IF newRefCount <= 0
             THEN IF UnlinkThrows(f, storage.file_path, fault)
                  THEN Thrown(f, {}, "fs")
                  ELSE IF fault = "db"
                  THEN Thrown(Unlink(f, storage.file_path), {}, "db")
                  ELSE Returned(DeleteStorage(d1, storage.id, TRUE),
                                Unlink(f, storage.file_path), {},
                                mediaId, storage.id, 0, TRUE)
             ELSE IF fault = "db"
                  THEN Thrown(f, {}, "db")
                  ELSE Returned(SetRef(d1, storage.id, newRefCount), f, {},
                                mediaId, storage.id, newRefCount, FALSE)

DeleteFaults == {"none", "unlink", "db"}

DeleteSync(mediaId, fault) ==
    /\ variant = "sync"
    /\ Arrive
    /\ fault = "none" \/ faults < MaxFaults
    /\ LET out == DeleteTransaction(db, files, mediaId, fault)
       IN /\ fault # "none" => out.error \in {"fs", "db"}
          /\ db' = IF out.ok THEN out.db ELSE db
          /\ files' = out.files
          /\ faults' = IF fault = "none" THEN faults ELSE faults + 1
          /\ resp' = [Response("delete", out, 404) EXCEPT !.id = mediaId]
          /\ UNCHANGED <<txn, req, dirs>>
    /\ UNCHANGED variant

\* ------------------------------------- "sync" variant: DELETE /media/all
\* The unlink loop: every file_path of file_storage that exists is unlinked;
\* an unlink that throws (the paths of `failing`) is logged and skipped.
UnlinkAll(d, f, failing) ==
    [p \in Paths |->
        IF p \in {s.file_path : s \in d.file_storage} \ failing THEN Absent ELSE f[p]]

DeleteAllTransaction(d, f, failing, fault) ==
    LET f1 == UnlinkAll(d, f, failing)
    IN IF fault = "db"
       THEN Thrown(f1, {}, "db")
       ELSE Returned(DeleteAllRows(d), f1, {}, 0, 0, 0, FALSE)

DeleteAllSync(failing, fault) ==
    /\ variant = "sync"
    /\ Arrive
    /\ failing \subseteq {s.file_path : s \in db.file_storage} \cap Blobs(files)
    /\ Cardinality(failing) + (IF fault = "db" THEN 1 ELSE 0) <= MaxFaults - faults
    /\ LET out == DeleteAllTransaction(db, files, failing, fault)
       IN /\ db' = IF out.ok THEN out.db ELSE db
          /\ files' = out.files
          /\ faults' = faults + Cardinality(failing) + (IF fault = "db" THEN 1 ELSE 0)
          /\ resp' = Response("deleteAll", out, 500)
          /\ UNCHANGED <<txn, req, dirs>>
    /\ UNCHANGED variant

\* The operator stops one server and starts the other on the same media.db
\* and upload root.
Restart ==
    /\ Quiet
    /\ variant' = IF variant = "sync" THEN "promise" ELSE "sync"
    /\ UNCHANGED <<db, files, dirs, faults, resp, txn, req, served>>

\* The process dies and is started again.  SQLite rolls the open transaction
\* back when media.db is opened next; what was done to the files stays; nobody
\* is answered.
Crashed == [NoResp EXCEPT !.error = "crash"]

\* The "sync" server dies inside a request's transaction, after the last file
\* system call of its body and before its commit.
CrashSync ==
    /\ variant = "sync"
    /\ Arrive
    /\ faults < MaxFaults
    /\ \/ \E c \in Contents, n \in Names, a \in Albums, t \in Times :
             /\ files' = UploadTransaction(db, files, c, ImagePng, "image", n, a, t,
                                           "insertMedia").files
             /\ dirs' = UploadFolders(db, dirs, c, a, "insertMedia")
       \/ \E out \in
             {DeleteTransaction(db, files, id, "db") : id \in MediaIds}
             \cup {DeleteAllTransaction(db, files, failing, "db") :
                      failing \in SUBSET ({s.file_path : s \in db.file_storage}
                                             \cap Blobs(files))} :
             /\ ~out.ok
             /\ files' = out.files
             /\ UNCHANGED dirs
    /\ faults' = faults + 1
    /\ resp' = Crashed
    /\ UNCHANGED <<variant, db, txn, req>>

\* The "promise" server dies between two awaits of the requests in flight.
CrashPromise ==
    /\ variant = "promise"
    /\ ~Quiet
    /\ faults < MaxFaults
    /\ db' = IF txn.active THEN txn.snap ELSE db
    /\ txn' = NoTxn
    /\ req' = [r \in Slots |-> Idle]
    /\ faults' = faults + 1
    /\ resp' = Crashed
    /\ UNCHANGED <<variant, files, dirs, served>>

\* ------------------------------------ "promise" variant: requests in flight
\* Each action below is one awaited statement running on the shared
\* connection, followed by the handler's code up to its next await.
\* dbRun = promisify(db.run.bind(db)) resolves with undefined: sqlite3 hands
\* lastID and changes to the callback as `this`, never as an argument.
FreeSlot(r) == req[r].pc = "idle" /\ \A q \in Slots : q < r => req[q].pc # "idle"

Goto(r, pc) == req' = [req EXCEPT ![r].pc = pc]

\* res.json / res.status(..).json: the request is over.
Respond(r, status, error) ==
    /\ resp' = [NoResp EXCEPT !.op = req[r].op, !.status = status,
                              !.id = req[r].mediaId, !.error = error,
                              !.wrote = req[r].wrote, !.more = req[r].more]
    /\ req' = [req EXCEPT ![r] = Idle]

\* bb.on("finish") with a file collected: the hash is taken, BEGIN is issued.
StartUpload(r, payload, mimeType, name, album) ==
    /\ variant = "promise"
    /\ FreeSlot(r)
    /\ Arrive
    /\ getFileType(mimeType, name) # "unknown"
    /\ db.sqlite_sequence.uploaded_media < MaxRows
    /\ db.sqlite_sequence.file_storage < MaxRows
    /\ req' = [req EXCEPT ![r] = [Idle EXCEPT !.op = "upload", !.pc = "BEGIN",
                  !.fileData = Collected(payload), !.name = name,
                  !.album = album, !.more = payload.more,
                  !.mimeType = actualMimeType(mimeType, name),
                  !.fileType = getFileType(mimeType, name)]]
    /\ UNCHANGED <<variant, db, files, dirs, faults, resp, txn>>

StartDelete(r, mediaId) ==
    /\ variant = "promise"
    /\ FreeSlot(r)
    /\ Arrive
    /\ req' = [req EXCEPT ![r] = [Idle EXCEPT !.op = "delete", !.pc = "BEGIN",
                                              !.mediaId = mediaId]]
    /\ UNCHANGED <<variant, db, files, dirs, faults, resp, txn>>

StartDeleteAll(r) ==
    /\ variant = "promise"
    /\ FreeSlot(r)
    /\ Arrive
    /\ req' = [req EXCEPT ![r] = [Idle EXCEPT !.op = "deleteAll", !.pc = "BEGIN"]]
    /\ UNCHANGED <<variant, db, files, dirs, faults, resp, txn>>

\* await dbRun("BEGIN TRANSACTION"): refused inside an open transaction.
FirstStatement(op) ==
    CASE op = "upload" -> "SELECT_HASH"
      [] op = "delete" -> "SELECT_MEDIA"
      [] OTHER -> "SELECT_FILES"

Begin(r) ==
    /\ req[r].pc = "BEGIN"
    /\ IF txn.active
       THEN /\ req' = [req EXCEPT ![r].pc = "ROLLBACK", ![r].error = "begin"]
            /\ UNCHANGED txn
       ELSE /\ txn' = [active |-> TRUE, snap |-> db]
            /\ req' = [req EXCEPT ![r].pc = FirstStatement(req[r].op),
                                  ![r].seen = {db}]
    /\ UNCHANGED <<variant, db, files, dirs, faults, resp, served>>

\* await dbGet("SELECT * FROM file_storage WHERE file_hash = ?"), then either
\* the reuse branch up to its UPDATE or the new-file branch up to its INSERT.
UploadSelectHash(r, timestamp, fault) ==
    /\ req[r].pc = "SELECT_HASH"
    /\ fault = "none" \/ faults < MaxFaults
    /\ LET found == SelectStorageByHash(db, calculateHash(req[r].fileData))
           filePath == FilePath(req[r].album, timestamp, req[r].name)
       IN IF found # {}
          THEN /\ fault = "none" /\ timestamp = 1
               /\ req' = [req EXCEPT ![r].pc = "UPDATE_REF", ![r].storage = found]
               /\ UNCHANGED <<files, dirs, faults>>
          ELSE IF fault = "write"
          THEN /\ req' = [req EXCEPT ![r].pc = "ROLLBACK", ![r].error = "fs"]
               /\ faults' = faults + 1
               /\ dirs' = ensureAlbumFolder(dirs, req[r].album)
               /\ UNCHANGED files
          ELSE /\ files' = WriteFile(files, filePath, req[r].fileData)
               /\ dirs' = ensureAlbumFolder(dirs, req[r].album)
               /\ req' = [req EXCEPT ![r].pc = "INSERT_STORAGE",
                                     ![r].timestamp = timestamp,
                                     ![r].wrote = {filePath}]
               /\ UNCHANGED faults
    /\ UNCHANGED <<variant, db, resp, txn, served>>

\* await dbRun("UPDATE file_storage SET ref_count = ref_count + 1 WHERE id = ?")
UploadUpdateRef(r) ==
    /\ req[r].pc = "UPDATE_REF"
    /\ LET st == CHOOSE s \in req[r].storage : TRUE
       IN /\ db' = IncrementRef(db, st.id)
          /\ req' = [req EXCEPT ![r].pc = "INSERT_MEDIA",
                                ![r].storage = {[st EXCEPT !.ref_count = @ + 1]}]
    /\ dirs' = ensureAlbumFolder(dirs, req[r].album)
    /\ UNCHANGED <<variant, files, faults, resp, txn, served>>

\* const result = await dbRun("INSERT INTO file_storage ..."); result.lastID
\* The UNIQUE index refuses a taken hash; when the row goes in, result is
\* undefined and reading result.lastID throws: both ways lead to the catch.
UploadInsertStorage(r) ==
    /\ req[r].pc = "INSERT_STORAGE"
    /\ LET fileHash == calculateHash(req[r].fileData)
       IN IF UniqueHashConflict(db, fileHash)
          THEN /\ req' = [req EXCEPT ![r].pc = "ROLLBACK", ![r].error = "unique"]
               /\ UNCHANGED db
          ELSE /\ db' = InsertStorage(db, fileHash,
                            SavedName(req[r].timestamp, req[r].name),
                            FilePath(req[r].album, req[r].timestamp, req[r].name),
                            req[r].mimeType, req[r].fileType)
               /\ req' = [req EXCEPT ![r].pc = "ROLLBACK", ![r].error = "TypeError"]
    /\ UNCHANGED <<variant, files, dirs, faults, resp, txn, served>>

\* await dbRun("INSERT INTO uploaded_media ...")
UploadInsertMediaRow(r) ==
    /\ req[r].pc = "INSERT_MEDIA"
    /\ LET st == CHOOSE s \in req[r].storage : TRUE
       IN db' = InsertMedia(db, st.id, req[r].name, req[r].album,
                            AlbumPath(req[r].album, st.saved_name))
    /\ Goto(r, "COMMIT")
    /\ UNCHANGED <<variant, files, dirs, faults, resp, txn, served>>

\* await dbRun("COMMIT"): refused when no transaction is open.  After it the
\* upload reads mediaResult.lastID and deleteAll reads mediaDeleted.changes,
\* both of undefined, so both throw into their catch; delete answers.
Commit(r) ==
    /\ req[r].pc = "COMMIT"
    /\ IF ~txn.active
       THEN /\ req' = [req EXCEPT ![r].pc = "ROLLBACK", ![r].error = "commit"]
            /\ UNCHANGED <<txn, resp>>
       ELSE /\ txn' = NoTxn
            /\ IF req[r].op = "delete"
               THEN LET st == CHOOSE s \in req[r].storage : TRUE
                    IN /\ resp' = [NoResp EXCEPT !.op = "delete", !.status = 200,
                                      !.id = req[r].mediaId, !.storageId = st.id,
                                      !.deletedFile = st.ref_count - 1 <= 0,
                                      !.refCount = IF st.ref_count - 1 > 0
                                                   THEN st.ref_count - 1 ELSE 0]
                       /\ req' = [req EXCEPT ![r] = Idle]
               ELSE /\ req' = [req EXCEPT ![r].pc = "ROLLBACK",
                                          ![r].error = "TypeError"]
                    /\ UNCHANGED resp
    /\ UNCHANGED <<variant, db, files, dirs, faults, served>>

\* catch (err) { await dbRun("ROLLBACK"); res.status(500)... }: with no open
\* transaction the ROLLBACK itself rejects inside the catch, and the handler
\* ends without answering.
Rollback(r) ==
    /\ req[r].pc = "ROLLBACK"
    /\ IF txn.active
       THEN /\ db' = txn.snap
            /\ txn' = NoTxn
            /\ Respond(r, 500, req[r].error)
       ELSE /\ Respond(r, 0, "unhandled")
            /\ UNCHANGED <<db, txn>>
    /\ UNCHANGED <<variant, files, dirs, faults, served>>

\* await dbGet("SELECT * FROM uploaded_media WHERE id = ?")
DeleteSelectMedia(r) ==
    /\ req[r].pc = "SELECT_MEDIA"
    /\ LET found == SelectMediaById(db, req[r].mediaId)
       IN IF found = {}
          THEN Goto(r, "ROLLBACK_404")
          ELSE req' = [req EXCEPT ![r].pc = "SELECT_STORAGE", ![r].media = found]
    /\ UNCHANGED <<variant, db, files, dirs, faults, resp, txn, served>>

\* if (!media) { await dbRun("ROLLBACK"); return res.status(404)... }: a
\* ROLLBACK that rejects here is caught by the handler's own catch.
RollbackNotFound(r) ==
    /\ req[r].pc = "ROLLBACK_404"
    /\ IF txn.active
       THEN /\ db' = txn.snap
            /\ txn' = NoTxn
            /\ Respond(r, 404, "notfound")
       ELSE /\ req' = [req EXCEPT ![r].pc = "ROLLBACK", ![r].error = "rollback"]
            /\ UNCHANGED <<db, txn, resp>>
    /\ UNCHANGED <<variant, files, dirs, faults, served>>

\* await dbGet("SELECT * FROM file_storage WHERE id = ?")
DeleteSelectStorage(r) ==
    /\ req[r].pc = "SELECT_STORAGE"
    /\ LET media == CHOOSE m \in req[r].media : TRUE
       IN req' = [req EXCEPT ![r].pc = "DELETE_MEDIA",
                             ![r].storage = SelectStorageById(db, media.storage_id)]
    /\ UNCHANGED <<variant, db, files, dirs, faults, resp, txn, served>>

\* await dbRun("DELETE FROM uploaded_media WHERE id = ?"), then newRefCount and,
\* when it is <= 0, the unlink of the blob before DELETE FROM file_storage.
DeleteMediaRow(r, fault) ==
    /\ req[r].pc = "DELETE_MEDIA"
    /\ fault = "none" \/ faults < MaxFaults
    /\ db' = DeleteMedia(db, req[r].mediaId)
    /\ IF req[r].storage = {}
       THEN /\ fault = "none"
            /\ req' = [req EXCEPT ![r].pc = "ROLLBACK", ![r].error = "TypeError"]
            /\ UNCHANGED <<files, dirs, faults>>
       ELSE LET storage == CHOOSE s \in req[r].storage : TRUE
            IN IF storage.ref_count - 1 > 0
               THEN /\ fault = "none"
                    /\ Goto(r, "UPDATE_SET_REF")
                    /\ UNCHANGED <<files, dirs, faults>>
               ELSE IF ~Exists(files, storage.file_path)
               THEN /\ fault = "none"
                    /\ Goto(r, "DELETE_STORAGE")
                    /\ UNCHANGED <<files, dirs, faults>>
               ELSE IF fault = "unlink"
               THEN /\ req' = [req EXCEPT ![r].pc = "ROLLBACK", ![r].error = "fs"]
                    /\ faults' = faults + 1
                    /\ UNCHANGED <<files, dirs>>
               ELSE /\ files' = Unlink(files, storage.file_path)
                    /\ Goto(r, "DELETE_STORAGE")
                    /\ UNCHANGED <<dirs, faults>>
    /\ UNCHANGED <<variant, resp, txn, served>>

\* await dbRun("DELETE FROM file_storage WHERE id = ?")
DeleteStorageRow(r) ==
    /\ req[r].pc = "DELETE_STORAGE"
    /\ LET storage == CHOOSE s \in req[r].storage : TRUE
       IN db' = DeleteStorage(db, storage.id, FALSE)
    /\ Goto(r, "COMMIT")
    /\ UNCHANGED <<variant, files, dirs, faults, resp, txn, served>>

\* await dbRun("UPDATE file_storage SET ref_count = ? WHERE id = ?")
DeleteSetRef(r) ==
    /\ req[r].pc = "UPDATE_SET_REF"
    /\ LET storage == CHOOSE s \in req[r].storage : TRUE
       IN db' = SetRef(db, storage.id, storage.ref_count - 1)
    /\ Goto(r, "COMMIT")
    /\ UNCHANGED <<variant, files, dirs, faults, resp, txn, served>>

\* await dbAll("SELECT DISTINCT file_path FROM file_storage"), then the unlink
\* loop, up to DELETE FROM uploaded_media.
DeleteAllSelectFiles(r, failing) ==
    /\ req[r].pc = "SELECT_FILES"
    /\ failing \subseteq {s.file_path : s \in db.file_storage} \cap Blobs(files)
    /\ Cardinality(failing) <= MaxFaults - faults
    /\ files' = UnlinkAll(db, files, failing)
    /\ faults' = faults + Cardinality(failing)
    /\ Goto(r, "DELETE_ALL_MEDIA")
    /\ UNCHANGED <<variant, db, dirs, resp, txn, served>>

\* await dbRun("DELETE FROM uploaded_media")
DeleteAllMedia(r) ==
    /\ req[r].pc = "DELETE_ALL_MEDIA"
    /\ db' = [db EXCEPT !.uploaded_media = {}]
    /\ Goto(r, "DELETE_ALL_STORAGE")
    /\ UNCHANGED <<variant, files, dirs, faults, resp, txn, served>>

\* await dbRun("DELETE FROM file_storage")
DeleteAllStorage(r) ==
    /\ req[r].pc = "DELETE_ALL_STORAGE"
    /\ db' = [db EXCEPT !.file_storage = {}]
    /\ Goto(r, "COMMIT")
    /\ UNCHANGED <<variant, files, dirs, faults, resp, txn, served>>

\* POST /api/upload/check-hash: one awaited SELECT on the shared connection,
\* which sees the rows of the transaction that is open on it, then the answer
\* with the row found (data: storage || null).
CheckHash(h) ==
    /\ variant = "promise"
    /\ Arrive
    /\ LET found == SelectStorageByHash(db, h)
       IN resp' = IF found = {}
                  THEN [NoResp EXCEPT !.op = "checkHash", !.status = 200]
                  ELSE LET st == CHOOSE s \in found : TRUE
                       IN [NoResp EXCEPT !.op = "checkHash", !.status = 200,
                                         !.storageId = st.id,
                                         !.refCount = st.ref_count]
    /\ UNCHANGED <<variant, db, files, dirs, faults, txn, req>>

\* A query arriving at the "promise" server.
Query == \E c \in Contents : CheckHash(calculateHash(c))

\* GET /api/upload/stats of the "sync" server: the SELECTs run one after the
\* other with nothing in between, then the answer.
StatsSync ==
    /\ variant = "sync"
    /\ Arrive
    /\ resp' = [NoResp EXCEPT !.op = "stats", !.status = 200,
                              !.stats = StatsOf(CountMedia(db), CountStorage(db),
                                                CountStorageOfType(db, "image"),
                                                CountStorageOfType(db, "video"))]
    /\ UNCHANGED <<variant, db, files, dirs, faults, txn, req>>

\* GET /api/upload/stats of the "promise" server: no BEGIN; each count is an
\* awaited dbGet on the shared connection, kept in a local constant.  `seen`
\* keeps the database as the request found it on arrival.
StartStats(r) ==
    /\ variant = "promise"
    /\ FreeSlot(r)
    /\ Arrive
    /\ req' = [req EXCEPT ![r] = [Idle EXCEPT !.op = "stats", !.pc = "COUNT_MEDIA",
                                              !.seen = {db}]]
    /\ UNCHANGED <<variant, db, files, dirs, faults, resp, txn>>

StatsCount(r, pc, count, next) ==
    /\ req[r].pc = pc
    /\ req' = [req EXCEPT ![r].counts = Append(@, count), ![r].pc = next]
    /\ UNCHANGED <<variant, db, files, dirs, faults, resp, txn, served>>

\* const mediaCount = await dbGet(..)
StatsCountMedia(r) == StatsCount(r, "COUNT_MEDIA", CountMedia(db), "COUNT_STORAGE")

\* const storageCount = await dbGet(..)
StatsCountStorage(r) ==
    StatsCount(r, "COUNT_STORAGE", CountStorage(db), "COUNT_IMAGE")

\* const imageCount = await dbGet(..)
StatsCountImage(r) ==
    StatsCount(r, "COUNT_IMAGE", CountStorageOfType(db, "image"), "COUNT_VIDEO")

\* const videoCount = await dbGet(..), then res.json; the two awaits that
\* follow it (SUM(file_size), COUNT(DISTINCT album_name)) feed no count.
StatsCountVideo(r) ==
    /\ req[r].pc = "COUNT_VIDEO"
    /\ resp' = [NoResp EXCEPT !.op = "stats", !.status = 200,
                              !.stats = StatsOf(req[r].counts[1], req[r].counts[2],
                                                req[r].counts[3],
                                                CountStorageOfType(db, "video"))]
    /\ req' = [req EXCEPT ![r] = Idle]
    /\ UNCHANGED <<variant, db, files, dirs, faults, txn, served>>

\* One statement of a stats request in flight.
StatsStatement(r) ==
    \/ StatsCountMedia(r)
    \/ StatsCountStorage(r)
    \/ StatsCountImage(r)
    \/ StatsCountVideo(r)

\* One statement of an upload in flight.
UploadStatement(r) ==
    \/ Begin(r)
    \/ \E t \in Times, x \in {"none", "write"} : UploadSelectHash(r, t, x)
    \/ UploadUpdateRef(r)
    \/ UploadInsertStorage(r)
    \/ UploadInsertMediaRow(r)
    \/ Commit(r)
    \/ Rollback(r)

\* One statement of a request in flight.
Statement(r) ==
    \/ UploadStatement(r)
    \/ DeleteSelectMedia(r)
    \/ RollbackNotFound(r)
    \/ DeleteSelectStorage(r)
    \/ \E x \in {"none", "unlink"} : DeleteMediaRow(r, x)
    \/ DeleteStorageRow(r)
    \/ DeleteSetRef(r)
    \/ \E failing \in SUBSET Blobs(files) : DeleteAllSelectFiles(r, failing)
    \/ DeleteAllMedia(r)
    \/ DeleteAllStorage(r)

\* A request arriving at the "promise" server.
ArrivalUpload(r, payloads, declared, albums) ==
    \E p \in payloads, in \in declared, a \in albums :
        StartUpload(r, p, in[1], in[2], a)

Arrival(r) ==
    \/ ArrivalUpload(r, Plain, Usual, Albums)
    \/ \E id \in MediaIds : StartDelete(r, id)
    \/ StartDeleteAll(r)

\* A request served by the "sync" server: one synchronous transaction.
SyncUpload(payloads, declared, albums) ==
    \E p \in payloads, in \in declared, a \in albums, t \in Times,
       x \in UploadFaults :
        UploadSync(p, in[1], in[2], a, t, x)

SyncRequest ==
    \/ SyncUpload(Plain, Usual, Albums)
    \/ \E id \in MediaIds, x \in DeleteFaults : DeleteSync(id, x)
    \/ \E failing \in SUBSET Blobs(files), x \in {"none", "db"} : DeleteAllSync(failing, x)

\* Requests one at a time: the next one arrives when the last one is over.
Next ==
    \/ SyncRequest
    \/ Quiet /\ UploadNoFile
    \/ \E r \in Slots : Quiet /\ Arrival(r)
    \/ Quiet /\ Query
    \/ \E r \in Slots : Statement(r)
    \/ Restart
    \/ CrashSync
    \/ CrashPromise

Spec == Init /\ [][Next]_vars

\* The "promise" server under load: requests arrive while others are in flight.
NextConcurrent ==
    \/ SyncRequest
    \/ UploadNoFile
    \/ \E r \in Slots : Arrival(r)
    \/ Query
    \/ \E r \in Slots : Statement(r)
    \/ Restart
    \/ CrashSync
    \/ CrashPromise

SpecConcurrent == Init /\ [][NextConcurrent]_vars

\* The front end of the upload endpoint (the busboy handlers, which both
\* servers share) with every kind of file part a client may send; what passes
\* it is stored by the "sync" server.
NextIntake ==
    \/ SyncUpload(Payloads, Declared, Albums)
    \/ UploadRejected
    \/ Restart

SpecIntake == Init /\ [][NextIntake]_vars

\* The upload endpoint of both servers, one request at a time, with every
\* album field a client may send.
NextAlbums ==
    \/ SyncUpload(Plain, Known, AlbumFields)
    \/ \E r \in Slots : Quiet /\ ArrivalUpload(r, Plain, Known, AlbumFields)
    \/ \E r \in Slots : UploadStatement(r)
    \/ Restart

SpecAlbums == Init /\ [][NextAlbums]_vars

\* Uploads and deletes with the stats endpoint of both servers; on the
\* "promise" server requests arrive while others are in flight.
NextStats ==
    \/ SyncUpload(Plain, Known, Albums)
    \/ \E id \in MediaIds : DeleteSync(id, "none")
    \/ StatsSync
    \/ \E r \in Slots : ArrivalUpload(r, Plain, Known, Albums)
    \/ \E r \in Slots : UploadStatement(r)
    \/ \E r \in Slots : StartStats(r)
    \/ \E r \in Slots : StatsStatement(r)
    \/ Restart

SpecStats == Init /\ [][NextStats]_vars

\* The upload endpoint of the "sync" server, the file part's header first.
NextClassify ==
    \/ \E mimeType \in ClassTypes, name \in ClassNames : FilePart(mimeType, name)
    \/ FinishPart

SpecClassify == Init /\ [][NextClassify]_vars

\* ------------------------------------------------- the "legacy" server
\* One table, no reference counting: every upload writes its own file below
\* the upload root and inserts its own uploaded_media row, with the callback
\* API of sqlite3; a statement's callback runs when the statement has run, and
\* other requests' statements run in between.
LegacyGetFileType(mimeType) ==
    IF StartsWith(mimeType, <<"image", "/">>) THEN "image"
    ELSE IF StartsWith(mimeType, <<"video", "/">>) THEN "video"
    ELSE "unknown"

\* path.join(uploadDir, savedName)
LegacyFilePath(ts, name) == join(<<SavedName(ts, name)>>)

LegacyPaths == {LegacyFilePath(t, n) : t \in Times, n \in Names}

InitLegacy ==
    /\ variant = "legacy"
    /\ db = EmptyDb
    /\ files = [p \in LegacyPaths |-> Absent]
    /\ dirs = {}
    /\ faults = 0
    /\ resp = NoResp
    /\ txn = NoTxn
    /\ req = [r \in Slots |-> Idle]
    /\ served = 0

\* INSERT INTO uploaded_media (original_name, saved_name, file_path, file_size,
\* mime_type, file_type), AUTOINCREMENT id.
LegacyInsertMedia(d, name, savedName, filePath, mimeType, fileType) ==
    LET id == d.sqlite_sequence.uploaded_media + 1
        row == [id |-> id, original_name |-> name, saved_name |-> savedName,
                file_path |-> filePath, mime_type |-> mimeType,
                file_type |-> fileType]
    IN [d EXCEPT !.uploaded_media = @ \cup {row},
                 !.sqlite_sequence.uploaded_media = id]

\* The uploads in flight, each of which is going to take an id.
LegacyUploading == {r \in Slots : req[r].op = "upload"}

\* bb.on("finish") with hasError: the part is neither image nor video, or the
\* file stream hit limits.fileSize.
LegacyUploadRejected(payload, mimeType) ==
    /\ variant = "legacy"
    /\ Arrive
    /\ LegacyGetFileType(mimeType) = "unknown" \/ payload.more
    /\ resp' = [NoResp EXCEPT
                   !.op = "upload", !.status = 400, !.more = payload.more,
                   !.error = IF LegacyGetFileType(mimeType) = "unknown"
                             THEN "unsupported" ELSE "limit"]
    /\ UNCHANGED <<variant, db, files, dirs, faults, txn, req>>

\* bb.on("finish") with a file collected: the file is written, 500 when that
\* throws, and the INSERT is handed to the connection.
LegacyStartUpload(r, payload, mimeType, name, timestamp, fault) ==
    /\ variant = "legacy"
    /\ FreeSlot(r)
    /\ Arrive
    /\ LegacyGetFileType(mimeType) # "unknown" /\ ~payload.more
    /\ db.sqlite_sequence.uploaded_media + Cardinality(LegacyUploading) < MaxRows
    /\ IF fault = "write"
       THEN /\ faults < MaxFaults
            /\ faults' = faults + 1
            /\ resp' = [NoResp EXCEPT !.op = "upload", !.status = 500, !.error = "fs"]
            /\ UNCHANGED <<files, req>>
       ELSE /\ files' = WriteFile(files, LegacyFilePath(timestamp, name),
                                  Collected(payload))
            /\ req' = [req EXCEPT ![r] =
                          [Idle EXCEPT !.op = "upload", !.pc = "INSERT",
                                       !.fileData = Collected(payload),
                                       !.name = name, !.timestamp = timestamp,
                                       !.mimeType = mimeType,
                                       !.fileType = LegacyGetFileType(mimeType),
                                       !.wrote = {LegacyFilePath(timestamp, name)}]]
            /\ UNCHANGED <<faults, resp>>
    /\ UNCHANGED <<variant, db, dirs, txn>>

\* db.run(INSERT ...) and its callback: on an error the file is unlinked (an
\* unlink that throws is logged) and 500 is answered, else 200 with lastID.
LegacyInsert(r, fault) ==
    /\ req[r].pc = "INSERT"
    /\ LET filePath == LegacyFilePath(req[r].timestamp, req[r].name)
           cost == CASE fault = "none" -> 0
                     [] fault = "insert" -> 1
                     [] OTHER -> 2
       IN /\ faults + cost <= MaxFaults
          /\ faults' = faults + cost
          /\ db' = IF fault = "none"
                   THEN LegacyInsertMedia(db, req[r].name,
                            SavedName(req[r].timestamp, req[r].name), filePath,
                            req[r].mimeType, req[r].fileType)
                   ELSE db
          /\ files' = IF fault = "insert" THEN Unlink(files, filePath) ELSE files
          /\ resp' = IF fault = "none"
                     THEN [NoResp EXCEPT !.op = "upload", !.status = 200,
                              !.id = db.sqlite_sequence.uploaded_media + 1,
                              !.wrote = req[r].wrote]
                     ELSE [NoResp EXCEPT !.op = "upload", !.status = 500,
                              !.error = "db", !.wrote = req[r].wrote]
    /\ req' = [req EXCEPT ![r] = Idle]
    /\ UNCHANGED <<variant, dirs, txn, served>>

\* DELETE /api/upload/media/:id: the SELECT is handed to the connection.
LegacyStartDelete(r, mediaId) ==
    /\ variant = "legacy"
    /\ FreeSlot(r)
    /\ Arrive
    /\ req' = [req EXCEPT ![r] = [Idle EXCEPT !.op = "delete", !.pc = "SELECT",
                                              !.mediaId = mediaId]]
    /\ UNCHANGED <<variant, db, files, dirs, faults, resp, txn>>

\* db.get(SELECT ...) and its callback: 404 without a row; else the file is
\* unlinked when it exists (an unlink that throws is logged) and the DELETE is
\* handed to the connection.
LegacySelect(r, fault) ==
    /\ req[r].pc = "SELECT"
    /\ LET found == SelectMediaById(db, req[r].mediaId)
       IN IF found = {}
          THEN /\ fault = "none"
               /\ Respond(r, 404, "notfound")
               /\ UNCHANGED <<files, faults>>
          ELSE LET row == CHOOSE m \in found : TRUE
               IN /\ req' = [req EXCEPT ![r].pc = "DELETE", ![r].media = found]
                  /\ IF fault = "unlink"
                     THEN /\ Exists(files, row.file_path)
                          /\ faults < MaxFaults
                          /\ faults' = faults + 1
                          /\ UNCHANGED files
                     ELSE /\ files' = Unlink(files, row.file_path)
                          /\ UNCHANGED faults
                  /\ UNCHANGED resp
    /\ UNCHANGED <<variant, db, dirs, txn, served>>

\* db.run(DELETE ...) and its callback: 500 on an error, else 200.
LegacyDelete(r, fault) ==
    /\ req[r].pc = "DELETE"
    /\ IF fault = "db"
       THEN /\ faults < MaxFaults
            /\ faults' = faults + 1
            /\ Respond(r, 500, "db")
            /\ UNCHANGED db
       ELSE /\ db' = DeleteMedia(db, req[r].mediaId)
            /\ Respond(r, 200, "")
            /\ UNCHANGED faults
    /\ UNCHANGED <<variant, files, dirs, txn, served>>

NextLegacy ==
    \/ \E p \in Payloads, in \in Known : LegacyUploadRejected(p, in[1])
    \/ \E r \in Slots, p \in Payloads, in \in Known, t \in Times,
          x \in {"none", "write"} : LegacyStartUpload(r, p, in[1], in[2], t, x)
    \/ \E r \in Slots, x \in {"none", "insert", "insertUnlink"} : LegacyInsert(r, x)
    \/ \E r \in Slots, id \in MediaIds : LegacyStartDelete(r, id)
    \/ \E r \in Slots, x \in {"none", "unlink"} : LegacySelect(r, x)
    \/ \E r \in Slots, x \in {"none", "db"} : LegacyDelete(r, x)

SpecLegacy == InitLegacy /\ [][NextLegacy]_vars

\* --------------------------------------------------------------- properties
\* The uploaded_media rows of database d that reference storage row s.
Entries(d, s) == {m \in d.uploaded_media : m.storage_id = s.id}

\* The file_storage rows of database d that entry `id` references.
StorageOf(d, id) ==
    {s \in d.file_storage :
        \E m \in d.uploaded_media : m.id = id /\ m.storage_id = s.id}

\* The database as the request now being served found it: the "sync" server
\* serves a request in one step, the "promise" server keeps what BEGIN saw.
Before == IF txn.active THEN txn.snap ELSE db

\* A request of kind op is over in this step.
Completes(op) ==
    \/ variant = "sync" /\ served' = served + 1 /\ resp'.op = op
    \/ \E r \in Slots : req[r].op = op /\ req[r].pc # "idle" /\ req'[r].pc = "idle"

\* C1: with requests served one at a time, whenever no request is in flight
\* (so after every completed upload, delete or delete-all, failed ones
\* included) every file_storage row's ref_count is the number of
\* uploaded_media rows whose storage_id is its id.
RefCountEqualsEntries ==
    Quiet => \A s \in db.file_storage : s.ref_count = Cardinality(Entries(db, s))

\* A request has just failed while a storage row shared by two entries exists.
RefCountEqualsEntriesWitness ==
    /\ Quiet
    /\ resp.status \in {404, 500}
    /\ \E s \in db.file_storage :
          s.ref_count = 2 /\ Cardinality(Entries(db, s)) = 2

\* C2: a step of a delete request for entry `id` never removes a blob that is
\* the file_path of a file_storage row which another uploaded_media row, left
\* by that step, still references.
DeleteKeepsReferencedBlobs ==
    [][\A p \in Paths, id \in MediaIds :
          /\ Exists(files, p) /\ ~Exists(files', p)
          /\ \/ /\ variant = "sync" /\ served' = served + 1
                /\ resp'.op = "delete" /\ resp'.id = id
             \/ \E r \in Slots :
                   req[r].op = "delete" /\ req[r].mediaId = id /\ req'[r] # req[r]
          => ~\E s \in db'.file_storage :
                 s.file_path = p /\ \E m \in Entries(db', s) : m.id # id]_vars

\* C3: whenever no request is in flight, the file_path values of the
\* file_storage rows with ref_count >= 1 are exactly the locations at which a
\* blob file exists.
RecordIffBlob ==
    Quiet => {s.file_path : s \in {t \in db.file_storage : t.ref_count >= 1}}
                = Blobs(files)

\* A delete request for entry `id` is over in this step and answered 200.
DeleteSucceeds(id) ==
    /\ Completes("delete")
    /\ resp'.op = "delete" /\ resp'.status = 200 /\ resp'.id = id

\* C4: whenever no request is in flight no file_storage row has ref_count <= 0;
\* and a delete that succeeds on the only entry referencing a file_storage row
\* leaves, in the step that completes it, neither that row nor a blob at its
\* file_path.
NoRecordWithoutReferences ==
    /\ [](Quiet => \A s \in db.file_storage : s.ref_count >= 1)
    /\ [][\A id \in MediaIds :
             DeleteSucceeds(id) =>
                 \A s \in StorageOf(Before, id) :
                     Cardinality(Entries(Before, s)) = 1 =>
                         /\ \A t \in db'.file_storage : t.id # s.id
                         /\ ~Exists(files', s.file_path)]_vars

\* The last delete reclaimed a storage row while another row stays in use.
NoRecordWithoutReferencesWitness ==
    /\ Quiet
    /\ resp.op = "delete" /\ resp.status = 200 /\ resp.deletedFile
    /\ \A s \in db.file_storage : s.id # resp.storageId
    /\ \E s \in db.file_storage : s.ref_count >= 1

\* C5: in every state, requests in flight on the shared connection included,
\* no two file_storage rows have the same file_hash; and a step that adds a
\* file_storage row adds it for a file_hash that no row had before the step.
ContentHashUnique ==
    /\ [](\A s, t \in db.file_storage : s.file_hash = t.file_hash => s = t)
    /\ [][\A s \in db'.file_storage :
             s.id > db.sqlite_sequence.file_storage =>
                 \A t \in db.file_storage : t.file_hash # s.file_hash]_vars

\* An upload that found no row for its hash, and wrote its blob, is refused by
\* the UNIQUE index: another upload of the same bytes inserted the row first.
ContentHashUniqueWitness ==
    \E r \in Slots :
        /\ req[r].op = "upload" /\ req[r].error = "unique"
        /\ req[r].wrote # {}
        /\ \E s \in db.file_storage : s.file_hash = calculateHash(req[r].fileData)

\* C6: whenever no request is in flight every uploaded_media row's storage_id
\* is the id of a file_storage row.
NoDanglingStorageId ==
    Quiet => \A m \in db.uploaded_media :
                 \E s \in db.file_storage : s.id = m.storage_id

\* A delete reclaimed one storage row while entries of another remain.
NoDanglingStorageIdWitness ==
    /\ Quiet
    /\ resp.op = "delete" /\ resp.status = 200 /\ resp.deletedFile
    /\ db.uploaded_media # {}
    /\ \A m \in db.uploaded_media : m.storage_id # resp.storageId

\* C7: an upload that was not rejected and met no environment fault is
\* answered 200 with an entry id no entry had before, the id of the one
\* file_storage row for its bytes, and that row's ref_count, which is the
\* number of entries referencing the row; and exactly one blob holds the bytes.
IdenticalIngestsShareOneBlob ==
    [][Completes("upload") /\ resp'.op = "upload"
          /\ resp'.error \notin {"nofile", "fs", "db"}
       => /\ resp'.status = 200
          /\ \A m \in db.uploaded_media : m.id # resp'.id
          /\ \E s \in db'.file_storage :
                /\ s.id = resp'.storageId
                /\ s.ref_count = resp'.refCount
                /\ s.ref_count = Cardinality(Entries(db', s))
                /\ \E m \in Entries(db', s) : m.id = resp'.id
                /\ Cardinality({p \in Paths :
                       Exists(files', p)
                       /\ calculateHash(files'[p]) = s.file_hash}) = 1]_vars

FailedIngestRemovesBlob ==
    Quiet /\ resp.op = "upload" /\ resp.status = 500 =>
        \A p \in resp.wrote :
            Exists(files, p) => \E s \in db.file_storage : s.file_path = p

\* What the database file holds: the rows of an open transaction are not
\* committed yet.
Committed == IF txn.active THEN txn.snap ELSE db

\* A delete request takes a step.
DeleteStep ==
    \/ variant = "sync" /\ served' = served + 1 /\ resp'.op = "delete"
    \/ \E r \in Slots : req[r].op = "delete" /\ req'[r] # req[r]

\* C11: a step of a delete request removes a blob only when no transaction is
\* open and the committed database has, after the step, no file_storage row
\* with that file_path: the row's removal is committed by then.
BlobRemovedAfterCommit ==
    [][\A p \in Paths :
          Exists(files, p) /\ ~Exists(files', p) /\ DeleteStep
          => /\ ~txn.active
             /\ \A s \in Committed'.file_storage : s.file_path # p]_vars

\* C12: with requests served one at a time, whenever a file_storage row is
\* inserted, and whenever one becomes part of the committed database, a blob
\* holding the bytes of its file_hash is already on disk at its file_path.
BlobWrittenBeforeCommit ==
    [][/\ \A s \in db'.file_storage :
             s.id > db.sqlite_sequence.file_storage
             => /\ Exists(files', s.file_path)
                /\ calculateHash(files'[s.file_path]) = s.file_hash
       /\ \A s \in Committed'.file_storage :
             s.id > Committed.sqlite_sequence.file_storage
             => /\ Exists(files', s.file_path)
                /\ calculateHash(files'[s.file_path]) = s.file_hash]_vars

\* An upload of new bytes was answered 200: its row is committed, its blob is
\* at the location the request wrote.
BlobWrittenBeforeCommitWitness ==
    /\ Quiet /\ ~txn.active
    /\ resp.op = "upload" /\ resp.status = 200 /\ resp.wrote # {}
    /\ \E s \in db.file_storage :
          /\ s.id = resp.storageId /\ s.file_path \in resp.wrote
          /\ calculateHash(files[s.file_path]) = s.file_hash

\* C14: in the "promise" server, requests interleaving at their awaits, once
\* no request is in flight every file_storage row's ref_count is the number of
\* uploaded_media rows referencing it.
PromiseRefCountEqualsEntries ==
    variant = "promise" /\ Quiet
    => \A s \in db.file_storage : s.ref_count = Cardinality(Entries(db, s))

\* C16: in the "promise" server no two uploads in flight with the same bytes
\* have both written a blob.
OnePhysicalWritePerDigest ==
    \A r, q \in Slots :
        /\ r # q
        /\ req[r].op = "upload" /\ req[q].op = "upload"
        /\ req[r].fileData = req[q].fileData
        => req[r].wrote = {} \/ req[q].wrote = {}

\* C17: an upload whose INSERT INTO file_storage was refused by the UNIQUE
\* index on file_hash is answered 200 when it is over.
UniqueConflictNotSurfaced ==
    [][\A r \in Slots :
          /\ req[r].op = "upload" /\ req[r].error = "unique"
          /\ req'[r].pc = "idle"
          => resp'.op = "upload" /\ resp'.status = 200]_vars

\* The file_storage rows of database d for hash h, and the entries they carry.
RowsByHash(d, h) == {s \in d.file_storage : s.file_hash = h}

EntriesByHash(d, h) ==
    {m \in d.uploaded_media : \E s \in RowsByHash(d, h) : m.storage_id = s.id}

\* Between databases b and a, the rows of request r's bytes carry all of the
\* upload's mutations (one more entry, on a row that is new with ref_count 1
\* or is b's row with ref_count raised by one) or none of them.
UploadAllOrNothing(r, b, a) ==
    LET h == calculateHash(req[r].fileData)
    IN \/ /\ RowsByHash(a, h) = RowsByHash(b, h)
          /\ EntriesByHash(a, h) = EntriesByHash(b, h)
       \/ \E e \in a.uploaded_media \ b.uploaded_media, s \in RowsByHash(a, h) :
             /\ e.storage_id = s.id
             /\ e.original_name = req[r].name /\ e.album_name = req[r].album
             /\ EntriesByHash(a, h) = EntriesByHash(b, h) \cup {e}
             /\ RowsByHash(a, h) = {s}
             /\ IF RowsByHash(b, h) = {}
                THEN s.ref_count = 1
                ELSE RowsByHash(b, h) = {[s EXCEPT !.ref_count = @ - 1]}

\* Between databases b and a, the entry of delete request r and its storage
\* row are both as they were, or the entry is gone and the row is gone (it
\* was the last reference) or has ref_count lowered by one.
DeleteAllOrNothing(r, b, a) ==
    \A m \in {e \in b.uploaded_media : e.id = req[r].mediaId} :
        \A s \in StorageOf(b, m.id) :
            \/ m \in a.uploaded_media /\ s \in a.file_storage
            \/ /\ m \notin a.uploaded_media
               /\ {t \in a.file_storage : t.id = s.id}
                     = IF s.ref_count > 1
                       THEN {[s EXCEPT !.ref_count = @ - 1]} ELSE {}

\* C15: when an upload or a delete of the "promise" server is over, the
\* database differs from the one its BEGIN found by all of the request's
\* mutations of file_storage and uploaded_media, or by none of them.
MutationsAllOrNothing ==
    [][\A r \in Slots :
          req[r].pc # "idle" /\ req'[r].pc = "idle" /\ req[r].seen # {}
          => LET b == CHOOSE d \in req[r].seen : TRUE
             IN /\ req[r].op = "upload" => UploadAllOrNothing(r, b, db')
                /\ req[r].op = "delete" => DeleteAllOrNothing(r, b, db')]_vars

\* C13: after the process died inside a request and its open transaction was
\* rolled back, every file_storage row has a blob at its file_path.
CrashLeavesNoRecordWithoutBlob ==
    Quiet /\ resp = Crashed
    => \A s \in db.file_storage : Exists(files, s.file_path)

\* C18: a check-hash query of the "promise" server that answers with a row
\* answers with a row of the committed database whose ref_count is the number
\* of committed entries referencing it.
QueryObservesConsistentState ==
    [][served' = served + 1 /\ resp'.op = "checkHash" /\ resp'.storageId # 0
       => \E s \in Committed.file_storage :
             /\ s.id = resp'.storageId
             /\ s.ref_count = resp'.refCount
             /\ s.ref_count = Cardinality(Entries(Committed, s))]_vars

\* The file parts of Declared that are neither an image nor a video: a type
\* that is none of image/*, video/* and the generic one, or the generic type
\* with a file name whose extension names no image or video format.
Unsupported ==
    {<<TextPlain, n>> : n \in Names}
    \cup {<<OctetStream, <<"a", ".", "txt">> >>, <<OctetStream, <<"a">> >>}

\* C19: a file part that is neither an image nor a video is never handed to
\* the upload transaction of either server; it is answered by the rejection,
\* whose status is 400 and which leaves file_storage, uploaded_media, the
\* blobs and the album folders as they were.
UnsupportedRejectedCleanly ==
    /\ [](\A in \in Unsupported :
            /\ ~ENABLED SyncUpload(Payloads, {in}, AlbumFields)
            /\ ~ENABLED (\E r \in Slots : ArrivalUpload(r, Payloads, {in}, AlbumFields))
            /\ served < MaxRequests => ENABLED UploadUnsupported(in[1], in[2]))
    /\ [][served' = served + 1 /\ resp'.error = "unsupported"
            => /\ resp'.op = "upload" /\ resp'.status = 400
               /\ db' = db /\ files' = files /\ dirs' = dirs /\ txn' = txn]_vars

\* An unsupported file part was rejected while rows, blobs and album folders
\* exist.
UnsupportedRejectedCleanlyWitness ==
    /\ resp.op = "upload" /\ resp.status = 400 /\ resp.error = "unsupported"
    /\ db.uploaded_media # {} /\ db.file_storage # {}
    /\ Blobs(files) # {} /\ dirs # {}

\* C20: an upload whose file part is longer than limits.fileSize is refused,
\* and no file_storage row, uploaded_media row or blob is made for it.
OversizeRejectedBeforeMutation ==
    [][served' = served + 1 /\ resp'.op = "upload" /\ resp'.more
          => /\ resp'.status \notin {0, 200}
             /\ db' = db /\ files' = files]_vars

\* C22: no two file_storage rows have the same file_path, and a step that
\* puts new bytes at a path puts them where no blob was.
WriteGoesToFreeLocation ==
    /\ [](\A s, t \in db.file_storage : s.id # t.id => s.file_path # t.file_path)
    /\ [][\A p \in Paths :
            Exists(files', p) /\ files'[p] # files[p] => ~Exists(files, p)]_vars

\* C30: an upload that found its hash in file_storage changes neither the
\* blobs nor the album folders: the "sync" transaction that wrote nothing, and
\* every statement of a "promise" upload that holds the row it found.
DedupeHitTouchesNoFile ==
    [][(\/ /\ variant = "sync" /\ served' = served + 1
           /\ resp'.op = "upload" /\ resp'.wrote = {}
           /\ resp'.error \in {"", "db"}
        \/ \E r \in Slots : /\ req[r].op = "upload" /\ req[r].storage # {}
                            /\ req'[r] # req[r])
       => files' = files /\ dirs' = dirs]_vars

\* C24: a delete of the only entry referencing a file_storage row whose blob
\* is not on disk, no statement of which failed, is answered 200 with
\* deletedFile set, and leaves neither the entry nor the row.
DeleteOfMissingBlobSucceeds ==
    [][\A id \in MediaIds :
          /\ Completes("delete")
          /\ resp'.op = "delete" /\ resp'.id = id /\ resp'.error # "db"
          /\ \E s \in StorageOf(Before, id) :
                s.ref_count = 1 /\ ~Exists(files, s.file_path)
          => /\ resp'.status = 200 /\ resp'.deletedFile
             /\ \A m \in db'.uploaded_media : m.id # id
             /\ \A s \in StorageOf(Before, id) :
                   \A t \in db'.file_storage : t.id # s.id]_vars

\* One upload was stored, its blob went away under a delete that was rolled
\* back, and the delete of the entry then succeeded and reported the file
\* deleted.
DeleteOfMissingBlobSucceedsWitness ==
    /\ resp.op = "delete" /\ resp.status = 200 /\ resp.deletedFile
    /\ served = 3 /\ faults = 1
    /\ db.sqlite_sequence.file_storage = 1 /\ db.sqlite_sequence.uploaded_media = 1
    /\ db.file_storage = {} /\ db.uploaded_media = {}
    /\ Blobs(files) = {}

\* C25: a "sync" upload that found its hash in file_storage (it wrote no
\* blob) and whose UPDATE or INSERT INTO uploaded_media threw is answered 500
\* and leaves file_storage, ref_count included, and uploaded_media as they
\* were, and the blobs too.
FailedDedupeRollsBackIncrement ==
    [][/\ variant = "sync" /\ served' = served + 1
       /\ resp'.op = "upload" /\ resp'.error = "db" /\ resp'.wrote = {}
       => resp'.status = 500 /\ db' = db /\ files' = files]_vars

\* The second of two uploads found the hash of the first, reached step 2 (it
\* made the folder of its own album) and failed there: the row of the first
\* still has ref_count 1 and one entry.
FailedDedupeRollsBackIncrementWitness ==
    /\ variant = "sync" /\ served = 2 /\ faults = 1
    /\ resp.op = "upload" /\ resp.status = 500 /\ resp.error = "db"
    /\ resp.wrote = {} /\ Cardinality(dirs) = 2
    /\ Cardinality(db.uploaded_media) = 1
    /\ \E s \in db.file_storage : db.file_storage = {s} /\ s.ref_count = 1

DeleteAllUnlinks ==
    \/ /\ variant = "sync" /\ served' = served + 1
       /\ resp'.op = "deleteAll" /\ resp'.error # "db"
    \/ \E r \in Slots : /\ req[r].op = "deleteAll" /\ req[r].pc = "SELECT_FILES"
                        /\ req'[r].pc = "DELETE_ALL_MEDIA"

BlobWrittenInsideRoot ==
    [][\A p \in Paths :
          files'[p] # files[p] /\ Exists(files', p)
          => Len(p) = 2 /\ p[1] # DotDot]_vars

\* ------------------------------------------------------------------ C28
\* A step that answers a stats request which found the store as it is now,
\* with no other request in flight and no transaction open on the connection.
StatsRespondsAtRest ==
    /\ resp'.op = "stats"
    /\ ~txn.active
    /\ \/ variant = "sync" /\ served' # served
       \/ \E r \in Slots :
             /\ req[r].pc = "COUNT_VIDEO" /\ req'[r].pc = "idle"
             /\ req[r].seen = {db}
             /\ Quiet'

\* C28: every stats response reports duplicateSavings = totalUploads -
\* uniqueFiles, the two being the numbers of uploaded_media rows and of
\* file_storage rows of the store, and the value is not negative after any
\* sequence of completed operations.
StatsSavingsConsistent ==
    /\ [](resp.stats.duplicateSavings
             = resp.stats.totalUploads - resp.stats.uniqueFiles)
    /\ [][StatsRespondsAtRest =>
            /\ resp'.stats.totalUploads = Cardinality(db.uploaded_media)
            /\ resp'.stats.uniqueFiles = Cardinality(db.file_storage)
            /\ resp'.stats.duplicateSavings >= 0]_vars

\* ------------------------------------------------------------------ C29
\* C29: every file_storage row has file_type image or video, and in every
\* stats response images + videos equals uniqueFiles.
StatsKindsAddUp ==
    /\ \A s \in db.file_storage : s.file_type \in {"image", "video"}
    /\ resp.op = "stats" =>
           resp.stats.images + resp.stats.videos = resp.stats.uniqueFiles

\* ------------------------------------------------------------------ C27
\* The kind each file name of ClassNames stands for by its extension.
KindOfName(name) ==
    IF name \in {<<"a", ".", "JPG">>, <<"a", ".", "txt", ".", "heic">>} THEN "image"
    ELSE IF name \in {<<"a", " ", ".", "MOV">>, <<"a", ".", "flv">>} THEN "video"
    ELSE "unknown"

KindExpected(mimeType, name) ==
    IF mimeType[1] = "image" THEN "image"
    ELSE IF mimeType[1] = "video" THEN "video"
    ELSE IF mimeType = <<"application", "/", "octet-stream">> THEN KindOfName(name)
    ELSE "unknown"

\* C27: a file part is classed image when its declared type starts with
\* image/, video when it starts with video/, by its file name's extension when
\* the type is application/octet-stream, and unknown otherwise; an unknown
\* part is answered 400 (unsupported) with nothing stored, a known one is not.
ClassifiedByTypeThenExtension ==
    /\ [](resp.op = "file" =>
            resp.part[3] = KindExpected(resp.part[1], resp.part[2]))
    /\ [][resp.op = "file" /\ resp'.op = "upload" =>
            IF KindExpected(resp.part[1], resp.part[2]) = "unknown"
            THEN /\ resp'.status = 400 /\ resp'.error = "unsupported"
                 /\ db' = db /\ files' = files /\ dirs' = dirs
            ELSE resp'.error # "unsupported"]_vars

ClassifiedByTypeThenExtensionWitness ==
    /\ resp.op = "file"
    /\ resp.part[1] = OctetStream /\ resp.part[2] = <<"a", " ", ".", "MOV">>
    /\ resp.part[3] = "video"

\* ------------------------------------------------------------------ C31
\* The step that completes a successful delete of entry `id` leaves every
\* other uploaded_media row and every file_storage row that entry did not
\* reference as the request found them, and changes nothing but ref_count on
\* the row it referenced.
DeleteFramesRows(id) ==
    LET referenced == {s.id : s \in StorageOf(Before, id)}
    IN /\ {m \in db'.uploaded_media : m.id # id}
            = {m \in Before.uploaded_media : m.id # id}
       /\ {s \in db'.file_storage : s.id \notin referenced}
            = {s \in Before.file_storage : s.id \notin referenced}
       /\ \A s \in Before.file_storage, t \in db'.file_storage :
             s.id = t.id => [t EXCEPT !.ref_count = 0] = [s EXCEPT !.ref_count = 0]

\* A step of a delete request for entry `id` leaves in place every blob that is
\* the file_path of a file_storage row the entry does not reference.
DeleteFramesBlobs(id) ==
    \A s \in Before.file_storage \ StorageOf(Before, id) :
        Exists(files, s.file_path) => Exists(files', s.file_path)

\* The step of a delete of entry `id` that touches the files and goes on to
\* the answer 200: the whole request on the "sync" server, the await after
\* DELETE FROM uploaded_media on the "promise" server.
DeleteUnlinks(id) ==
    \/ variant = "sync" /\ DeleteSucceeds(id)
    \/ \E r \in Slots :
          /\ req[r].op = "delete" /\ req[r].mediaId = id
          /\ req[r].pc = "DELETE_MEDIA"
          /\ req'[r].pc \in {"DELETE_STORAGE", "UPDATE_SET_REF"}

\* C31: a successful delete of an entry leaves every other entry unchanged,
\* every file_storage row the entry did not reference unchanged and the blob
\* of every such row present; on the referenced row only ref_count changes.
DeleteLeavesOthersAlone ==
    [][\A id \in MediaIds :
          /\ DeleteSucceeds(id) => DeleteFramesRows(id)
          /\ DeleteUnlinks(id) => DeleteFramesBlobs(id)]_vars

\* ------------------------------------------------------------------ C32
\* C32: on the "promise" server every upload, delete and delete-all request
\* that ends (the process not dying) ends with a response sent: a status of
\* 200, 400, 404 or 500, never the end of the handler without an answer.
EveryRequestAnswered ==
    [][\A r \in Slots :
          /\ variant = "promise"
          /\ req[r].op \in {"upload", "delete", "deleteAll"}
          /\ req[r].pc # "idle" /\ req'[r].pc = "idle"
          /\ resp'.error # "crash"
          => resp'.status \in {200, 400, 404, 500}]_vars

\* ------------------------------------------------------------------ C33
\* Request r's ROLLBACK goes through in this step.
RollsBack(r) ==
    /\ req[r].pc \in {"ROLLBACK", "ROLLBACK_404"}
    /\ txn.active /\ ~txn'.active

\* C33: on the "promise" server a ROLLBACK that goes through is issued by a
\* request whose own BEGIN went through and restores the database that BEGIN
\* found; while another request that passed its BEGIN is still in flight, it
\* discards nothing.
RollbackUndoesOwnWorkOnly ==
    [][\A r \in Slots :
          RollsBack(r) =>
              /\ req[r].error # "begin"
              /\ req[r].seen = {txn.snap}
              /\ (\E q \in Slots \ {r} :
                     req[q].pc \notin {"idle", "BEGIN"} /\ req[q].seen # {})
                 => db = txn.snap]_vars

\* ------------------------------------------------------------------ C34
\* C34: a delete request is answered 404 (not found) only when no
\* uploaded_media row has the id it names.
NotFoundOnlyForUnknownId ==
    [][Completes("delete") /\ resp'.op = "delete" /\ resp'.status = 404
       => \A m \in Before.uploaded_media : m.id # resp'.id]_vars

\* ------------------------------------------------------------------ C35
\* C35: the album_path of every uploaded_media row is the path, below the
\* upload root, of the blob of the file_storage row it references.
EntryPathNamesBlob ==
    \A m \in db.uploaded_media, s \in db.file_storage :
        m.storage_id = s.id => m.album_path = s.file_path

\* ------------------------------------------------------------------ C36
\* Content type t is of kind k.
TypeAgrees(t, k) == Len(t) >= 2 /\ t[1] = k /\ t[2] = "/"

\* C36: the mime_type of every file_storage row starts with image/ when its
\* file_type is image and with video/ when it is video, and so does the
\* fileInfo.mimeType the file handler settles for every part it accepts, which
\* is what the INSERT stores.
StoredTypeAgreesWithKind ==
    /\ \A s \in db.file_storage : TypeAgrees(s.mime_type, s.file_type)
    /\ resp.op = "file" /\ resp.part[3] # "unknown"
       => TypeAgrees(resp.part[4], resp.part[3])

\* ------------------------------------------------------------------ C37
\* C37: the ids handed out only grow.  No committed row has an id above its
\* table's sqlite_sequence value, that value never goes down, and an upload
\* answered 200 returns an entry id above it and a storage id that is above
\* it or is the id of a row in the table; so an id once removed is never
\* returned again.
IdsNeverReused ==
    /\ [](/\ \A m \in Committed.uploaded_media :
                m.id <= Committed.sqlite_sequence.uploaded_media
          /\ \A s \in Committed.file_storage :
                s.id <= Committed.sqlite_sequence.file_storage)
    /\ [][/\ Committed'.sqlite_sequence.uploaded_media
                 >= Committed.sqlite_sequence.uploaded_media
          /\ Committed'.sqlite_sequence.file_storage
                 >= Committed.sqlite_sequence.file_storage]_vars
    /\ [][Completes("upload") /\ resp'.op = "upload" /\ resp'.status = 200
          => /\ resp'.id > Before.sqlite_sequence.uploaded_media
             /\ \/ resp'.storageId > Before.sqlite_sequence.file_storage
                \/ \E s \in Before.file_storage : s.id = resp'.storageId]_vars

\* An upload was answered with entry id 2 after entry 1 had been removed.
IdsNeverReusedWitness ==
    /\ resp.op = "upload" /\ resp.status = 200 /\ resp.id = 2
    /\ db.uploaded_media # {}
    /\ \A m \in db.uploaded_media : m.id = 2

\* ------------------------------------------------------------------ C38
\* The upload transaction of the "sync" server run on the store as it is, and
\* the delete transaction run right after it on the entry id it returned.
IngestThenDelete(c, n, a, t) ==
    LET up == UploadTransaction(db, files, c, ImagePng, "image", n, a, t, "none")
    IN [up |-> up, del |-> DeleteTransaction(up.db, up.files, up.id, "none")]

\* C38: an upload that succeeds, followed at once by the delete of the entry
\* id it returned, leaves the file_storage rows, the uploaded_media rows and
\* the blobs exactly as they were before the upload.
IngestThenDeleteRestores ==
    variant = "sync" =>
        \A c \in Contents, n \in Names, a \in Albums, t \in Times :
            LET run == IngestThenDelete(c, n, a, t)
            IN run.up.ok =>
                  /\ run.del.ok
                  /\ run.del.db.file_storage = db.file_storage
                  /\ run.del.db.uploaded_media = db.uploaded_media
                  /\ run.del.files = files

\* The files below the upload root of the legacy server.
LegacyBlobs == {p \in DOMAIN files : Exists(files, p)}

\* The file_path values of the uploaded_media rows of the legacy server.
LegacyRowPaths == {m.file_path : m \in db.uploaded_media}

\* C39: in the legacy server, whenever an upload or a delete has been answered
\* (with success or with an error) and no other request is in flight, the
\* files on disk are exactly the file_path values of the uploaded_media rows;
\* and a delete request never removes a file that a remaining row of another
\* upload names.
LegacyFilesMatchRows ==
    /\ [](variant = "legacy" /\ Quiet /\ resp.op \in {"upload", "delete"}
            => LegacyBlobs = LegacyRowPaths)
    /\ [][\A r \in Slots :
            variant = "legacy" /\ req[r].op = "delete"
            => \A m \in db.uploaded_media :
                  m.id # req[r].mediaId /\ Exists(files, m.file_path)
                  => Exists(files', m.file_path)]_vars
====
